---- MODULE Spec2Model ----
(***************************************************************************)
(* Model of CombinedSpotifyAnalytics (src/combined_spotify_analytics.py):  *)
(* the historical CSV loader, the recent-activity fetcher, the merge       *)
(* engine (combine_data), the save step and the one-shot main() run; and   *)
(* of one run of the dashboard script (src/streamlit_app.py) over the      *)
(* saved table.                                                            *)
(*                                                                         *)
(* A DataFrame is a sequence of rows; each row carries its index label and *)
(* the ten canonical columns.  Timestamps are integer instants             *)
(* (milliseconds), NaT / NaN / None are explicit null markers.             *)
(***************************************************************************)
EXTENDS Integers, Sequences, FiniteSets, TLC

VARIABLES
    csv,              \* the file at csv_path: NoFile, or the rows of the export
    sp,               \* self.sp: the API client, or "None"
    historical_data,  \* self.historical_data
    api_data,         \* self.api_data
    results,          \* the reply of the last current_user_recently_played call, None before any call
    combined_data,    \* self.combined_data
    output_file,      \* data/combined_listening_history.csv
    op,               \* the method that ran last
    prev_op,          \* the method that ran before it
    ret,              \* what it returned
    pc,               \* position of main() or of the dashboard script; "free" when methods are called directly
    dash_df,          \* streamlit_app.py: df, the table load_data() returned
    start_year,       \* the year range selected in the dashboard
    end_year,
    filtered_df,      \* dash_df restricted to the selected years
    metrics,          \* the summary metrics of the dashboard
    top_songs,        \* Top Songs: plays and shown artist of every listed song
    first_plays,      \* artist discovery: the first local play of every artist
    discoveries,      \* artist discovery: new artists by year
    view_type,        \* seasonal breakdown: "Artists" or "Songs"
    heatmap_data,     \* seasonal breakdown: plays by listed entity and season
    environ,          \* authorize_spotify.py: the .env file and the installed packages
    sp_oauth,         \* the SpotifyOAuth manager, "None" until it is built
    exit_status       \* the exit status of the script, Running until it exits

\* the state of a CombinedSpotifyAnalytics run
objVars == <<csv, sp, historical_data, api_data, results, combined_data, op, prev_op, ret>>

\* the state of a dashboard run
dashVars ==
    <<dash_df, start_year, end_year, filtered_df, metrics, top_songs, first_plays, discoveries, view_type, heatmap_data>>

\* the state of a run of the authorization script
authVars == <<environ, sp_oauth, exit_status>>

vars == <<objVars, output_file, pc, dashVars, authVars>>

----------------------------------------------------------------------------
(* Bounds of the model *)

\* timestamps of the export are 1..MaxTime; the API may also report MaxTime + 1
MaxTime == 2
\* rows in one export file
MaxRows == 2
\* items in one reply of current_user_recently_played
MaxItems == 2

----------------------------------------------------------------------------
(* Program constants *)

MIN_PLAY_TIME_MS == 30000

CONTENT_TYPE_FILTER == "audio"

----------------------------------------------------------------------------
(* Values *)

\* pandas' missing timestamp
NaT == -1

\* pandas' missing value in an object column (NaN / None)
NaN == "<NaN>"

\* an empty ts cell of the export
EmptyTs == 0

None == [kind |-> "None"]

NoFile == [kind |-> "NoFile"]

File(rows) == [kind |-> "File", rows |-> rows]

DataFrame(rows) == [kind |-> "DataFrame", rows |-> rows]

SeqsUpTo(S, n) == UNION {[1..k -> S] : k \in 0..n}

\* pd.read_csv: an empty cell of a text column is read as NaN
ReadCsvCell(cell) == IF cell = "" THEN NaN ELSE cell

\* pd.to_datetime: a missing value becomes NaT, an instant stays that instant
ToDatetime(ts) == IF ts = EmptyTs \/ ts = NaT THEN NaT ELSE ts

\* Series.notna()
NotNa(v) == v # NaN

\* comparisons of timestamps: any comparison with NaT is False
Gt(a, b) == a # NaT /\ b # NaT /\ a > b

Le(a, b) == a # NaT /\ b # NaT /\ a <= b

\* reset_index(drop=True): index labels 0 .. n-1 by position
ResetIndex(df) == [i \in 1..Len(df) |-> [df[i] EXCEPT !.index = i - 1]]

\* Series.max() / Series.min() of played_at: NaT is skipped, NaT when nothing is left
PlayedAtValues(df) == {df[i].played_at : i \in 1..Len(df)} \ {NaT}

PlayedAtMax(df) ==
    IF PlayedAtValues(df) = {} THEN NaT
    ELSE CHOOSE t \in PlayedAtValues(df) : \A u \in PlayedAtValues(df) : u <= t

PlayedAtMin(df) ==
    IF PlayedAtValues(df) = {} THEN NaT
    ELSE CHOOSE t \in PlayedAtValues(df) : \A u \in PlayedAtValues(df) : t <= u

----------------------------------------------------------------------------
(* load_historical_csv *)

\* the threshold test with > in place of >=
LongEnoughStrict(ms_played) == ms_played > MIN_PLAY_TIME_MS

\* df['ms_played'] >= MIN_PLAY_TIME_MS
LongEnough(ms_played) == ms_played >= MIN_PLAY_TIME_MS

\* a content test that only rejects podcasts
IsAudioNotPodcast(content_type) == content_type # "podcast"

\* df['content_type'] == CONTENT_TYPE_FILTER
IsAudio(content_type) == content_type = CONTENT_TYPE_FILTER

\* a loader that keeps unidentified rows
TrackIdentifiedAlways(track_name) == TRUE

\* df['track_name'].notna()
TrackIdentified(track_name) == NotNa(track_name)

\* pd.read_csv plus the timestamp column: row i of the file, index label i - 1
ReadCsv(file) ==
    [i \in 1..Len(file.rows) |->
        LET c == file.rows[i] IN
        [index |-> i - 1,
         timestamp |-> ToDatetime(c.ts),
         ms_played |-> c.ms_played,
         content_type |-> c.content_type,
         master_metadata_track_name |-> ReadCsvCell(c.master_metadata_track_name),
         master_metadata_album_artist_name |-> ReadCsvCell(c.master_metadata_album_artist_name),
         master_metadata_album_album_name |-> ReadCsvCell(c.master_metadata_album_album_name),
         spotify_track_uri |-> ReadCsvCell(c.spotify_track_uri),
         platform |-> ReadCsvCell(c.platform),
         conn_country |-> ReadCsvCell(c.conn_country),
         shuffle |-> ReadCsvCell(c.shuffle),
         skipped |-> ReadCsvCell(c.skipped)]]

\* the standardized columns and the final column selection
\* (a boolean mask df[mask] is SelectSeq: rows in order, index labels kept)
Standardize(r) ==
    [index |-> r.index,
     played_at |-> r.timestamp,
     track_name |-> r.master_metadata_track_name,
     artist_name |-> r.master_metadata_album_artist_name,
     album_name |-> r.master_metadata_album_album_name,
     duration_ms |-> r.ms_played,
     spotify_track_uri |-> r.spotify_track_uri,
     platform |-> r.platform,
     conn_country |-> r.conn_country,
     shuffle |-> r.shuffle,
     skipped |-> r.skipped]

LoadFrame(file) ==
    LET df0 == ReadCsv(file)
        LongRow(r) == LongEnough(r.ms_played)
        df1 == SelectSeq(df0, LongRow)
        AudioRow(r) == IsAudio(r.content_type)
        df2 == SelectSeq(df1, AudioRow)
        df3 == [i \in 1..Len(df2) |-> Standardize(df2[i])]
        NamedRow(r) == TrackIdentified(r.track_name)
    IN  SelectSeq(df3, NamedRow)

load_historical_csv ==
    /\ op' = "load_historical_csv"
    /\ prev_op' = op
    /\ IF csv = NoFile
       THEN /\ ret' = "False"
            /\ UNCHANGED historical_data
       ELSE /\ historical_data' = DataFrame(LoadFrame(csv))
            /\ ret' = "True"
    /\ UNCHANGED <<csv, sp, api_data, results, combined_data, output_file>>

----------------------------------------------------------------------------
(* fetch_recent_api_data *)

Raise == [kind |-> "Raise"]

Items(items) == [kind |-> "Items", items |-> items]

\* an entry that credits the track to its last listed artist
TrackRowLastArtist(item, i) ==
    [index |-> i - 1,
     played_at |-> ToDatetime(item.played_at),
     track_name |-> item.track.name,
     artist_name |-> IF item.track.artists # <<>>
                     THEN item.track.artists[Len(item.track.artists)]
                     ELSE NaN,
     album_name |-> item.track.album,
     duration_ms |-> item.track.duration_ms,
     spotify_track_uri |-> item.track.uri,
     platform |-> "API",
     conn_country |-> NaN,
     shuffle |-> NaN,
     skipped |-> NaN]

\* one entry of all_tracks, built from one item of results['items']
TrackRow(item, i) ==
    [index |-> i - 1,
     played_at |-> ToDatetime(item.played_at),
     track_name |-> item.track.name,
     artist_name |-> IF item.track.artists # <<>> THEN item.track.artists[1] ELSE NaN,
     album_name |-> item.track.album,
     duration_ms |-> item.track.duration_ms,
     spotify_track_uri |-> item.track.uri,
     platform |-> "API",
     conn_country |-> NaN,
     shuffle |-> NaN,
     skipped |-> NaN]

AllTracks(items) == [i \in 1..Len(items) |-> TrackRow(items[i], i)]

\* reply: what current_user_recently_played does, Raise or Items(..)
fetch_recent_api_data(reply) ==
    /\ op' = "fetch_recent_api_data"
    /\ prev_op' = op
    /\ IF sp = "None"
       THEN \* line 113 returns before the call of line 124
            /\ ret' = "False"
            /\ UNCHANGED <<api_data, results>>
       ELSE IF reply = Raise
       THEN /\ ret' = "False"
            /\ results' = reply
            /\ UNCHANGED api_data
       ELSE IF reply.items = <<>>
       THEN \* pd.DataFrame([]) has no played_at column: the assignment of line 142
            \* has happened when line 143 raises KeyError into the except clause
            /\ api_data' = DataFrame(<<>>)
            /\ results' = reply
            /\ ret' = "False"
       ELSE /\ api_data' = DataFrame(AllTracks(reply.items))
            /\ results' = reply
            /\ ret' = "True"
    /\ UNCHANGED <<csv, sp, historical_data, combined_data, output_file>>

----------------------------------------------------------------------------
(* combine_data *)

\* a cutoff test that admits the boundary instant
NewerOrEqual(played_at, cutoff) == played_at # NaT /\ cutoff # NaT /\ played_at >= cutoff

\* self.api_data['played_at'] > last_historical_date
Newer(played_at, cutoff) == Gt(played_at, cutoff)

\* a readiness test that also wants the API data
BothLoaded(hist, api) == hist # None /\ api # None

\* combine_data goes on unless self.historical_data is None
HistoricalLoaded(hist, api) == hist # None

\* pd.concat([a, b], ignore_index=True)
Concat(a, b) == ResetIndex(a \o b)

\* row j comes before row i in sort_values('played_at'): ascending, NaT last,
\* rows of equal played_at in their original order (numpy sorts up to 16
\* elements by insertion, which is stable)
SortsBefore(df, j, i) ==
    \/ Gt(df[i].played_at, df[j].played_at)
    \/ df[j].played_at # NaT /\ df[i].played_at = NaT
    \/ df[j].played_at = df[i].played_at /\ j < i

SortValues(df) ==
    [k \in 1..Len(df) |->
        df[CHOOSE i \in 1..Len(df) :
            Cardinality({j \in 1..Len(df) : SortsBefore(df, j, i)}) = k - 1]]

\* a key that compares whole rows
WholeRowKey(r) == [r EXCEPT !.index = 0]

\* subset=['played_at', 'track_name', 'artist_name']; NaN and NaT equal themselves
DuplicateKey(r) == <<r.played_at, r.track_name, r.artist_name>>

\* keep='last'
DuplicatedKeepLast(df, i) == \E j \in (i + 1)..Len(df) : DuplicateKey(df[j]) = DuplicateKey(df[i])

\* DataFrame.duplicated(keep='first'): an earlier row has the same key
Duplicated(df, i) == \E j \in 1..(i - 1) : DuplicateKey(df[j]) = DuplicateKey(df[i])

\* the rows at the positions of S, in order
RowsAt(df, S) ==
    [k \in 1..Cardinality(S) |->
        df[CHOOSE i \in S : Cardinality({j \in S : j < i}) = k - 1]]

\* a deduplication on played_at alone
DropDuplicatesByTime(df) ==
    RowsAt(df, {i \in 1..Len(df) : ~\E j \in 1..(i - 1) : df[j].played_at = df[i].played_at})

\* drop_duplicates: index labels are kept
DropDuplicates(df) == RowsAt(df, {i \in 1..Len(df) : ~Duplicated(df, i)})

\* the API rows that are added to the historical rows
NewApiData(hist, api) ==
    LET last_historical_date == PlayedAtMax(hist)
        NewRow(r) == Newer(r.played_at, last_historical_date)
    IN  SelectSeq(api, NewRow)

\* the merged table; dated is the frame whose last played_at is the cutoff
CombinedSince(hist, api, dated) ==
    LET new_api_data ==
            IF api # None /\ Len(api.rows) > 0 THEN NewApiData(dated.rows, api.rows) ELSE <<>>
        combined == IF Len(new_api_data) > 0 THEN Concat(hist.rows, new_api_data) ELSE hist.rows
    IN  DropDuplicates(ResetIndex(SortValues(combined)))

Combined(hist, api) == CombinedSince(hist, api, hist)

\* a merge that only admits API rows newer than what was merged before
combine_data_incremental ==
    /\ op' = "combine_data"
    /\ prev_op' = op
    /\ IF ~HistoricalLoaded(historical_data, api_data)
       THEN /\ ret' = "False"
            /\ UNCHANGED combined_data
       ELSE /\ combined_data' =
                IF combined_data = None
                THEN DataFrame(Combined(historical_data, api_data))
                ELSE DataFrame(CombinedSince(historical_data, api_data, combined_data))
            /\ ret' = "True"
    /\ UNCHANGED <<csv, sp, historical_data, api_data, results, output_file>>

combine_data ==
    /\ op' = "combine_data"
    /\ prev_op' = op
    /\ IF ~HistoricalLoaded(historical_data, api_data)
       THEN /\ ret' = "False"
            /\ UNCHANGED combined_data
       ELSE /\ combined_data' = DataFrame(Combined(historical_data, api_data))
            /\ ret' = "True"
    /\ UNCHANGED <<csv, sp, historical_data, api_data, results, output_file>>

----------------------------------------------------------------------------
(* get_statistics, save_combined_data *)

\* df['played_at'].min().strftime(..) raises on NaT: an empty table, or one
\* whose played_at are all NaT
StatisticsRaise(df) == PlayedAtMin(df.rows) = NaT

\* to_csv(index=False): the index is not written, NaN and NaT are empty cells
ToCsvCell(v) == IF v = NaN THEN "" ELSE v

ToCsvRow(r) ==
    [played_at |-> IF r.played_at = NaT THEN EmptyTs ELSE r.played_at,
     track_name |-> ToCsvCell(r.track_name),
     artist_name |-> ToCsvCell(r.artist_name),
     album_name |-> ToCsvCell(r.album_name),
     duration_ms |-> r.duration_ms,
     spotify_track_uri |-> ToCsvCell(r.spotify_track_uri),
     platform |-> ToCsvCell(r.platform),
     conn_country |-> ToCsvCell(r.conn_country),
     shuffle |-> ToCsvCell(r.shuffle),
     skipped |-> ToCsvCell(r.skipped)]

ToCsv(df) == File([i \in 1..Len(df.rows) |-> ToCsvRow(df.rows[i])])

\* a save that writes a file even when there is no merged table
save_combined_data_unguarded ==
    /\ op' = "save_combined_data"
    /\ prev_op' = op
    /\ output_file' = IF combined_data = None THEN File(<<>>) ELSE ToCsv(combined_data)
    /\ ret' = "True"
    /\ UNCHANGED <<csv, sp, historical_data, api_data, results, combined_data>>

\* a save that appends to the file it finds
save_combined_data_append ==
    /\ op' = "save_combined_data"
    /\ prev_op' = op
    /\ IF combined_data = None
       THEN /\ ret' = "False"
            /\ UNCHANGED output_file
       ELSE /\ output_file' =
                IF output_file = NoFile
                THEN ToCsv(combined_data)
                ELSE File(output_file.rows \o ToCsv(combined_data).rows)
            /\ ret' = "True"
    /\ UNCHANGED <<csv, sp, historical_data, api_data, results, combined_data>>

save_combined_data ==
    /\ op' = "save_combined_data"
    /\ prev_op' = op
    /\ IF combined_data = None
       THEN /\ ret' = "False"
            /\ UNCHANGED output_file
       ELSE /\ output_file' = ToCsv(combined_data)
            /\ ret' = "True"
    /\ UNCHANGED <<csv, sp, historical_data, api_data, results, combined_data>>

----------------------------------------------------------------------------
(* The environment: export files and API replies *)

\* one row of the export; the columns the claims do not vary are fixed
RawRow(ts, ms_played, content_type, track, artist) ==
    [ts |-> ts,
     ms_played |-> ms_played,
     content_type |-> content_type,
     master_metadata_track_name |-> track,
     master_metadata_album_artist_name |-> artist,
     master_metadata_album_album_name |-> "Album",
     spotify_track_uri |-> "spotify:track:1",
     platform |-> "ios",
     conn_country |-> "US",
     shuffle |-> "False",
     skipped |-> "False"]

\* one item of the API reply; duration_ms is the track's length, here a short track
Item(played_at, artists) ==
    [played_at |-> played_at,
     track |-> [name |-> "T1",
                artists |-> artists,
                album |-> "Album",
                duration_ms |-> 25000,
                uri |-> "spotify:track:1"]]

\* rows that pass the loader's filters: any ts (or none), with or without an
\* artist, and two play times to tell rows of one key apart
MergeRows ==
    {RawRow(ts, v[2], CONTENT_TYPE_FILTER, "T1", v[1]) :
        ts \in {EmptyTs} \cup 1..MaxTime,
        v \in {<<"A1", MIN_PLAY_TIME_MS>>, <<"A1", MIN_PLAY_TIME_MS + 1>>, <<"", MIN_PLAY_TIME_MS>>}}

\* rows on both sides of each of the loader's filters
FilterRows ==
    {RawRow(1, ms, ct, track, "A1") :
        ms \in {MIN_PLAY_TIME_MS - 1, MIN_PLAY_TIME_MS},
        ct \in {CONTENT_TYPE_FILTER, "podcast"},
        track \in {"", "T1"}}
    \cup {RawRow(1, MIN_PLAY_TIME_MS, "video", "T1", "A1")}

MainFiles ==
    {NoFile} \cup {File(rows) : rows \in SeqsUpTo(MergeRows, MaxRows) \cup SeqsUpTo(FilterRows, MaxRows)}

MainReplies ==
    {Raise} \cup {Items(items) : items \in SeqsUpTo({Item(t, <<"A1">>) : t \in 1..(MaxTime + 1)}, MaxItems)}

\* the smaller environment of the runs that call the methods in any order
ObjFiles ==
    {NoFile} \cup
    {File(rows) :
        rows \in SeqsUpTo({RawRow(ts, MIN_PLAY_TIME_MS, CONTENT_TYPE_FILTER, "T1", "A1") : ts \in 1..MaxTime},
                          MaxRows)}

ObjReplies ==
    {Raise} \cup
    {Items(items) : items \in SeqsUpTo({Item(t, <<"A1">>) : t \in MaxTime..(MaxTime + 1)}, MaxItems)}

\* replies whose items list no artist, one artist or two, and may lack a played_at
FetchReplies ==
    {Raise} \cup
    {Items(items) :
        items \in SeqsUpTo({Item(t, a) : t \in {NaT, MaxTime + 1},
                                        a \in {<<>>, <<"A1">>, <<"A2", "A1">>}},
                          MaxItems)}

----------------------------------------------------------------------------
(* Spec: one CombinedSpotifyAnalytics object, its methods called in any order *)

\* os.getenv of a variable that is not set
Unset == "<unset>"

\* the script has not exited
Running == -1

\* no authorization script runs
AuthIdle ==
    /\ environ = None
    /\ sp_oauth = "None"
    /\ exit_status = Running

\* no dashboard runs
DashIdle ==
    /\ dash_df = None
    /\ start_year = 0
    /\ end_year = 0
    /\ filtered_df = None
    /\ metrics = None
    /\ top_songs = None
    /\ first_plays = None
    /\ discoveries = None
    /\ view_type = "None"
    /\ heatmap_data = None

\* __init__
Constructed ==
    /\ sp \in {"None", "Spotify"}
    /\ historical_data = None
    /\ api_data = None
    /\ results = None
    /\ combined_data = None
    /\ op = "__init__"
    /\ prev_op = "None"
    /\ ret = "None"

Init ==
    /\ csv \in ObjFiles
    /\ DashIdle
    /\ AuthIdle
    /\ output_file = NoFile
    /\ Constructed
    /\ pc = "free"

CallLoad == pc = "free" /\ load_historical_csv /\ UNCHANGED <<pc, dashVars, authVars>>

CallFetch == pc = "free" /\ (\E reply \in ObjReplies : fetch_recent_api_data(reply)) /\ UNCHANGED <<pc, dashVars, authVars>>

CallCombine == pc = "free" /\ combine_data /\ UNCHANGED <<pc, dashVars, authVars>>

CallSave == pc = "free" /\ save_combined_data /\ UNCHANGED <<pc, dashVars, authVars>>

Next == CallLoad \/ CallFetch \/ CallCombine \/ CallSave

Spec == Init /\ [][Next]_vars

----------------------------------------------------------------------------
(* SpecMain: one run of main() *)

\* what an earlier run left at the output path
OldFile ==
    File(<<[played_at |-> 1,
            track_name |-> "T0",
            artist_name |-> "A0",
            album_name |-> "Album",
            duration_ms |-> MIN_PLAY_TIME_MS,
            spotify_track_uri |-> "spotify:track:0",
            platform |-> "ios",
            conn_country |-> "US",
            shuffle |-> "False",
            skipped |-> "False"]>>)

InitMain ==
    /\ csv \in MainFiles
    /\ DashIdle
    /\ AuthIdle
    /\ output_file = OldFile
    /\ Constructed
    /\ pc = "start"

MainLoad ==
    /\ pc = "start"
    /\ load_historical_csv
    /\ pc' = IF ret' = "True" THEN "loaded" ELSE "returned"
    /\ UNCHANGED <<dashVars, authVars>>

MainFetch ==
    /\ pc = "loaded"
    /\ \E reply \in MainReplies : fetch_recent_api_data(reply)
    /\ pc' = "fetched"
    /\ UNCHANGED <<dashVars, authVars>>

MainCombine ==
    /\ pc = "fetched"
    /\ combine_data
    /\ pc' = IF ret' = "True" THEN "combined" ELSE "returned"
    /\ UNCHANGED <<dashVars, authVars>>

\* print_statistics: get_statistics reads combined_data and changes nothing
\* get_statistics without the test of lines 198-200: indexing None raises
get_statistics_unguarded ==
    /\ op' = "get_statistics"
    /\ prev_op' = op
    /\ ret' = IF combined_data = None \/ StatisticsRaise(combined_data) THEN "raised" ELSE "stats"
    /\ UNCHANGED <<csv, sp, historical_data, api_data, results, combined_data, output_file>>

\* get_statistics: None without a merged table, else the statistics, unless
\* strftime raises on the NaT earliest date
get_statistics ==
    /\ op' = "get_statistics"
    /\ prev_op' = op
    /\ ret' = IF combined_data = None THEN "None"
              ELSE IF StatisticsRaise(combined_data) THEN "raised" ELSE "stats"
    /\ UNCHANGED <<csv, sp, historical_data, api_data, results, combined_data, output_file>>

CallStatistics == pc = "free" /\ get_statistics /\ UNCHANGED <<pc, dashVars, authVars>>

\* every order of calls of the five methods on one object
NextCalls == Next \/ CallStatistics

SpecCalls == Init /\ [][NextCalls]_vars

MainPrintStatistics ==
    /\ pc = "combined"
    /\ op' = "get_statistics"
    /\ prev_op' = op
    /\ IF StatisticsRaise(combined_data)
       THEN ret' = "raised" /\ pc' = "crashed"
       ELSE ret' = "stats" /\ pc' = "printed"
    /\ UNCHANGED <<csv, sp, historical_data, api_data, results, combined_data, output_file, dashVars, authVars>>

MainSave ==
    /\ pc = "printed"
    /\ save_combined_data
    /\ pc' = "done"
    /\ UNCHANGED <<dashVars, authVars>>

NextMain == MainLoad \/ MainFetch \/ MainCombine \/ MainPrintStatistics \/ MainSave

SpecMain == InitMain /\ [][NextMain]_vars

----------------------------------------------------------------------------
(* SpecFetch: main() up to its fetch, over replies that vary in their artists *)

InitFetch ==
    /\ csv \in ObjFiles
    /\ DashIdle
    /\ AuthIdle
    /\ output_file = NoFile
    /\ Constructed
    /\ pc = "start"

FetchArtists ==
    /\ pc = "loaded"
    /\ \E reply \in FetchReplies : fetch_recent_api_data(reply)
    /\ pc' = "fetched"
    /\ UNCHANGED <<dashVars, authVars>>

NextFetch == MainLoad \/ FetchArtists

SpecFetch == InitFetch /\ [][NextFetch]_vars

----------------------------------------------------------------------------
(* streamlit_app.py: the dashboard script over the saved table             *)
(*                                                                         *)
(* An instant of the dashboard is the reading of the US/Eastern clock,     *)
(* counted in months; a frame carries its set of column names, and its     *)
(* rows the columns the aggregates below read.                             *)

\* rows of the saved table
MaxPlays == 3
\* the plays span the years 2016 .. 2017 + MaxYears
MaxYears == 2

\* df = df[df['played_at_local'].dt.year >= 2017]
DATA_START_YEAR == 2017

\* month m of year y
At(y, m) == 12 * y + (m - 1)

\* .dt.year
Year(t) == t \div 12

\* .dt.month
Month(t) == (t % 12) + 1

DashFrame(columns, rows) == [kind |-> "DataFrame", columns |-> columns, rows |-> rows]

\* the columns of the table load_data returns
LoadedColumns ==
    {"played_at", "track_name", "artist_name", "album_name", "duration_ms",
     "spotify_track_uri", "platform", "conn_country", "shuffle", "skipped",
     "played_at_local", "year", "month", "hour", "day_of_week", "day_name",
     "minutes", "date"}

\* read_csv and to_datetime, row i of the file
DashReadRow(r, i) ==
    [index |-> i - 1,
     played_at |-> ToDatetime(r.played_at),
     track_name |-> ReadCsvCell(r.track_name),
     artist_name |-> ReadCsvCell(r.artist_name),
     album_name |-> ReadCsvCell(r.album_name),
     duration_ms |-> r.duration_ms,
     spotify_track_uri |-> ReadCsvCell(r.spotify_track_uri),
     platform |-> ReadCsvCell(r.platform),
     conn_country |-> ReadCsvCell(r.conn_country),
     shuffle |-> ReadCsvCell(r.shuffle),
     skipped |-> ReadCsvCell(r.skipped)]

\* df['year'], df['month']
TimeComponents(r) == ("year" :> Year(r.played_at)) @@ ("month" :> Month(r.played_at)) @@ r

\* a load that keeps every dated row
load_data_all_years(file) ==
    LET raw == [i \in 1..Len(file.rows) |-> DashReadRow(file.rows[i], i)]
        Dated(r) == r.played_at # NaT
        kept == SelectSeq(raw, Dated)
    IN  DashFrame(LoadedColumns, [i \in 1..Len(kept) |-> TimeComponents(kept[i])])

\* NaT >= 2017 is False: an undated row goes with the rows before 2017
load_data(file) ==
    LET raw == [i \in 1..Len(file.rows) |-> DashReadRow(file.rows[i], i)]
        From2017(r) == r.played_at # NaT /\ Year(r.played_at) >= DATA_START_YEAR
        kept == SelectSeq(raw, From2017)
    IN  DashFrame(LoadedColumns, [i \in 1..Len(kept) |-> TimeComponents(kept[i])])

\* df['year'].unique()
available_years(d) == {d.rows[i].year : i \in 1..Len(d.rows)}

MinOf(S) == CHOOSE x \in S : \A y \in S : x <= y

\* df[(df['year'] >= start_year) & (df['year'] <= end_year)]
YearFilter(d, first, last) ==
    LET InRange(r) == r.year >= first /\ r.year <= last
    IN  DashFrame(d.columns, SelectSeq(d.rows, InRange))

\* track_name + ' - ' + artist_name; NaN when either is
TrackKey(r) ==
    IF r.track_name = NaN \/ r.artist_name = NaN
    THEN NaN
    ELSE r.track_name \o " - " \o r.artist_name

\* d['track_key'] = ...
WithTrackKey(d) ==
    DashFrame(d.columns \cup {"track_key"},
              [i \in 1..Len(d.rows) |-> ("track_key" :> TrackKey(d.rows[i])) @@ d.rows[i]])

\* the non-null values of a column
Artists(d) == {d.rows[i].artist_name : i \in 1..Len(d.rows)} \ {NaN}

TrackKeys(d) == {TrackKey(d.rows[i]) : i \in 1..Len(d.rows)} \ {NaN}

\* a first year taken over the rows of the selected years only
FirstListenYearInRange(d) ==
    [a \in Artists(YearFilter(d, start_year, end_year)) |->
        MinOf({d.rows[i].year :
                 i \in {j \in 1..Len(d.rows) :
                           /\ d.rows[j].artist_name = a
                           /\ d.rows[j].year >= start_year
                           /\ d.rows[j].year <= end_year}})]

\* df.groupby('artist_name')['year'].min()
FirstListenYearByArtist(d) ==
    [a \in Artists(d) |->
        MinOf({d.rows[i].year : i \in {j \in 1..Len(d.rows) : d.rows[j].artist_name = a}})]

\* df.groupby('track_key')['year'].min()
FirstListenYearByTrack(d) ==
    [k \in TrackKeys(d) |->
        MinOf({d.rows[i].year : i \in {j \in 1..Len(d.rows) : TrackKey(d.rows[j]) = k}})]

\* df.groupby('artist_name')['played_at_local'].min()
FirstPlays(d) ==
    [a \in Artists(d) |->
        MinOf({d.rows[i].played_at : i \in {j \in 1..Len(d.rows) : d.rows[j].artist_name = a}})]

\* first_plays.dt.year.value_counts()
Discoveries(first) ==
    [y \in {Year(first[a]) : a \in DOMAIN first} |->
        Cardinality({a \in DOMAIN first : Year(first[a]) = y})]

\* a labelling that leaves December without a season
get_season_no_december(month) ==
    IF month \in {1, 2} THEN "Winter"
    ELSE IF month \in {3, 4, 5} THEN "Spring"
    ELSE IF month \in {6, 7, 8} THEN "Summer"
    ELSE IF month \in {9, 10, 11} THEN "Fall"
    ELSE NaN

\* a labelling by calendar quarters
get_season_quarters(month) ==
    IF month \in {1, 2, 3} THEN "Winter"
    ELSE IF month \in {4, 5, 6} THEN "Spring"
    ELSE IF month \in {7, 8, 9} THEN "Summer"
    ELSE "Fall"

get_season(month) ==
    IF month \in {12, 1, 2} THEN "Winter"
    ELSE IF month \in {3, 4, 5} THEN "Spring"
    ELSE IF month \in {6, 7, 8} THEN "Summer"
    ELSE "Fall"

season_order == <<"Winter", "Spring", "Summer", "Fall">>

\* d['season'] = d['month'].apply(get_season)
WithSeason(d) ==
    DashFrame(d.columns \cup {"season"},
              [i \in 1..Len(d.rows) |-> ("season" :> get_season(d.rows[i].month)) @@ d.rows[i]])

\* the column the seasonal breakdown groups by
Entity(r, view) == IF view = "Artists" THEN r.artist_name ELSE r.track_name

\* value_counts(): plays by entity, null entities left out
ValueCounts(d, view) ==
    [e \in {Entity(d.rows[i], view) : i \in 1..Len(d.rows)} \ {NaN} |->
        Cardinality({i \in 1..Len(d.rows) : Entity(d.rows[i], view) = e})]

\* .head(n) of a descending value_counts: the n most played entities
TopItems(counts, n) ==
    IF Cardinality(DOMAIN counts) <= n
    THEN DOMAIN counts
    ELSE CHOOSE S \in SUBSET DOMAIN counts :
            /\ Cardinality(S) = n
            /\ \A a \in S : \A b \in (DOMAIN counts) \ S : counts[a] >= counts[b]

\* groupby([entity, 'season']).size(), pivot, fillna(0), reindex(columns=season_order)
Heatmap(d, view) ==
    LET top_30_items == TopItems(ValueCounts(d, view), 30)
        seasons == {season_order[k] : k \in 1..Len(season_order)}
    IN  [e \in top_30_items |->
            [s \in seasons |->
                Cardinality({i \in 1..Len(d.rows) :
                                Entity(d.rows[i], view) = e /\ d.rows[i].season = s})]]

\* load_data() at line 97; read_csv raises when the file is missing
DashLoad ==
    /\ pc = "script"
    /\ IF output_file = NoFile
       THEN /\ pc' = "exception"
            /\ UNCHANGED dash_df
       ELSE /\ dash_df' = load_data(output_file)
            /\ pc' = "df_loaded"
    /\ UNCHANGED <<objVars, authVars, output_file, start_year, end_year, filtered_df, metrics,
                   top_songs, first_plays, discoveries, view_type, heatmap_data>>

\* the two year selectors and the filter of line 204; min() of no year raises
DashSelect ==
    /\ pc = "df_loaded"
    /\ IF available_years(dash_df) = {}
       THEN /\ pc' = "exception"
            /\ UNCHANGED <<start_year, end_year, filtered_df>>
       ELSE /\ \E first \in available_years(dash_df) :
                 \E last \in {y \in available_years(dash_df) : y >= first} :
                     /\ start_year' = first
                     /\ end_year' = last
                     /\ filtered_df' = YearFilter(dash_df, first, last)
            /\ pc' = "years_selected"
    /\ UNCHANGED <<objVars, authVars, output_file, dash_df, metrics, top_songs, first_plays, discoveries,
                   view_type, heatmap_data>>

\* Python's x / 0 on int operands
ZeroDivisionError == [kind |-> "ZeroDivisionError"]

\* x / y on Python ints, kept as an exact fraction
Ratio(num, den) == IF den = 0 THEN ZeroDivisionError ELSE [num |-> num, den |-> den]

\* the else value of the percentage expressions
Zero == [num |-> 0, den |-> 1]

\* a percentage without the test of the previous count
PercentUnguarded(delta, prev) == Ratio(delta * 100, prev)

\* (delta / prev * 100) if prev > 0 else 0
Percent(delta, prev) == IF prev > 0 THEN Ratio(delta * 100, prev) ELSE Zero

\* the same on the float64 sums of the minutes column, where a division by
\* zero does not raise
PercentFloat(delta, prev) == IF prev > 0 THEN [num |-> delta * 100, den |-> prev] ELSE Zero

RECURSIVE SumDuration(_)
\* df['minutes'].sum(), in milliseconds
SumDuration(rows) ==
    IF rows = <<>> THEN 0 ELSE Head(rows).duration_ms + SumDuration(Tail(rows))

\* lines 219-240: the counts of the year before the selected one and the four
\* percentages
Comparison(d, keyed, year) ==
    LET prev_year == year - 1
        prev_year_df == WithTrackKey(YearFilter(d, prev_year, prev_year))
        prev_plays == Len(prev_year_df.rows)
        prev_hours == SumDuration(prev_year_df.rows)
        prev_artists == Cardinality(Artists(prev_year_df))
        prev_tracks == Cardinality(TrackKeys(prev_year_df))
    IN  [prev_year |-> prev_year,
         prev_plays |-> prev_plays,
         prev_hours |-> prev_hours,
         prev_artists |-> prev_artists,
         prev_tracks |-> prev_tracks,
         plays_pct |-> Percent(Len(keyed.rows) - prev_plays, prev_plays),
         hours_pct |-> PercentFloat(SumDuration(keyed.rows) - prev_hours, prev_hours),
         artists_pct |-> Percent(Cardinality(Artists(keyed)) - prev_artists, prev_artists),
         tracks_pct |-> Percent(Cardinality(TrackKeys(keyed)) - prev_tracks, prev_tracks)]

\* lines 267-272: the average of the plays over the selected years
Average(total_plays, first, last) ==
    LET num_years == last - first + 1
    IN  [num_years |-> num_years, avg_per_year |-> Ratio(total_plays, num_years)]

\* the summary metrics, lines 208-334: a single selected year that is not the
\* first of the table is compared with the year before it (and the later
\* track_key assignment of line 259 is not reached if a percentage raises);
\* any other selection shows the average per year
DashMetrics ==
    /\ pc = "years_selected"
    /\ LET keyed == WithTrackKey(filtered_df)
           first_listen_year == FirstListenYearByArtist(dash_df)
           first_listen_track == FirstListenYearByTrack(WithTrackKey(dash_df))
           single == start_year = end_year /\ start_year > MinOf(available_years(dash_df))
           comparison == IF single THEN Comparison(dash_df, keyed, start_year) ELSE None
           average ==
               IF single THEN None ELSE Average(Len(filtered_df.rows), start_year, end_year)
           raised ==
               IF single
               THEN ZeroDivisionError \in
                       {comparison.plays_pct, comparison.artists_pct, comparison.tracks_pct}
               ELSE average.avg_per_year = ZeroDivisionError
       IN  /\ filtered_df' = keyed
           /\ dash_df' = IF raised THEN dash_df ELSE WithTrackKey(dash_df)
           /\ pc' = IF raised THEN "exception" ELSE "metrics_shown"
           /\ metrics' =
                IF raised THEN metrics ELSE
                [total_plays |-> Len(filtered_df.rows),
                 artists |-> Cardinality(Artists(filtered_df)),
                 tracks |-> Cardinality(TrackKeys(keyed)),
                 comparison |-> comparison,
                 average |-> average,
                 first_listen_year |-> first_listen_year,
                 first_listen_track |-> first_listen_track,
                 new_artists |->
                    Cardinality({a \in DOMAIN first_listen_year :
                                    /\ first_listen_year[a] >= start_year
                                    /\ first_listen_year[a] <= end_year}),
                 new_tracks |->
                    Cardinality({k \in DOMAIN first_listen_track :
                                    /\ first_listen_track[k] >= start_year
                                    /\ first_listen_track[k] <= end_year})]
    /\ UNCHANGED <<objVars, authVars, output_file, start_year, end_year, top_songs, first_plays, discoveries,
                   view_type, heatmap_data>>

\* filtered_df[filtered_df['track_name'] == song]['artist_name'].iloc[0]
FirstArtistOf(d, song) ==
    d.rows[MinOf({i \in 1..Len(d.rows) : d.rows[i].track_name = song})].artist_name

\* filtered_df['track_name'].value_counts().head(10), and the artist shown with each song
TopSongs(d) ==
    LET counts == ValueCounts(d, "Songs")
    IN  [song \in TopItems(counts, 10) |->
            [song |-> song, plays |-> counts[song], artist |-> FirstArtistOf(d, song)]]

\* Top Songs, lines 405-426
DashTopSongs ==
    /\ pc = "metrics_shown"
    /\ top_songs' = TopSongs(filtered_df)
    /\ pc' = "top_songs_shown"
    /\ UNCHANGED <<objVars, authVars, output_file, dash_df, start_year, end_year, filtered_df, metrics,
                   first_plays, discoveries, view_type, heatmap_data>>

\* Artist Discovery (All-Time), lines 661-674
DashDiscovery ==
    /\ pc = "top_songs_shown"
    /\ first_plays' = FirstPlays(dash_df)
    /\ discoveries' = Discoveries(FirstPlays(dash_df))
    /\ pc' = "discovery_shown"
    /\ UNCHANGED <<objVars, authVars, output_file, dash_df, start_year, end_year, filtered_df, metrics,
                   top_songs, view_type, heatmap_data>>

\* the seasonal breakdown, lines 748-953, for either value of the View toggle
DashSeason ==
    /\ pc = "discovery_shown"
    /\ filtered_df' = WithSeason(filtered_df)
    /\ \E view \in {"Artists", "Songs"} :
          /\ view_type' = view
          /\ heatmap_data' = Heatmap(WithSeason(filtered_df), view)
    /\ pc' = "seasons_shown"
    /\ UNCHANGED <<objVars, authVars, output_file, dash_df, start_year, end_year, metrics,
                   top_songs, first_plays, discoveries>>

\* one row of the saved table; the columns the dashboard does not group by are fixed
DashRow(played_at, track, artist) ==
    [played_at |-> played_at,
     track_name |-> track,
     artist_name |-> artist,
     album_name |-> "Album",
     duration_ms |-> MIN_PLAY_TIME_MS,
     spotify_track_uri |-> "spotify:track:1",
     platform |-> "ios",
     conn_country |-> "US",
     shuffle |-> "False",
     skipped |-> "False"]

\* the saved table is sorted by played_at and holds a triple once
SavedOrder(rows) ==
    \A i, j \in 1..Len(rows) :
        i < j => /\ rows[i].played_at <= rows[j].played_at
                 /\ <<rows[i].played_at, rows[i].track_name, rows[i].artist_name>>
                       # <<rows[j].played_at, rows[j].track_name, rows[j].artist_name>>

\* plays of one year in each of the four seasons, by two artists, of two
\* tracks, one of them also without an artist
SeasonPlays ==
    {DashRow(At(DATA_START_YEAR, m), e[1], e[2]) :
        m \in {3, 6, 9, 12},
        e \in {<<"T1", "A1">>, <<"T1", "A2">>, <<"T2", "A1">>, <<"T1", "">>}}

\* plays of two artists in the years from 2016 on
DiscoveryPlays ==
    {DashRow(At(y, 6), "T1", a) :
        y \in (DATA_START_YEAR - 1)..(DATA_START_YEAR + MaxYears),
        a \in {"A1", "A2"}}

DashFiles ==
    {NoFile} \cup
    {File(rows) :
        rows \in {saved \in SeqsUpTo(SeasonPlays, MaxPlays) \cup SeqsUpTo(DiscoveryPlays, MaxPlays) :
                    SavedOrder(saved)}}

InitDash ==
    /\ output_file \in DashFiles
    /\ csv = NoFile
    /\ sp = "None"
    /\ Constructed
    /\ DashIdle
    /\ AuthIdle
    /\ pc = "script"

NextDash == DashLoad \/ DashSelect \/ DashMetrics \/ DashTopSongs \/ DashDiscovery \/ DashSeason

SpecDash == InitDash /\ [][NextDash]_vars

----------------------------------------------------------------------------
(* SpecSeason: get_season applied to a column of arbitrary integers *)

MonthValues == 0..13

InitSeason ==
    /\ filtered_df \in
          {DashFrame({"month"}, rows) :
              rows \in SeqsUpTo({[month |-> m] : m \in MonthValues}, MaxPlays) \ {<<>>}}
    /\ dash_df = None
    /\ start_year = 0
    /\ end_year = 0
    /\ metrics = None
    /\ top_songs = None
    /\ first_plays = None
    /\ discoveries = None
    /\ view_type = "None"
    /\ heatmap_data = None
    /\ AuthIdle
    /\ output_file = NoFile
    /\ csv = NoFile
    /\ sp = "None"
    /\ Constructed
    /\ pc = "season_column"

\* line 759
ApplyGetSeason ==
    /\ pc = "season_column"
    /\ filtered_df' = WithSeason(filtered_df)
    /\ pc' = "seasons_labelled"
    /\ UNCHANGED <<objVars, authVars, output_file, dash_df, start_year, end_year, metrics,
                   top_songs, first_plays, discoveries, view_type, heatmap_data>>

NextSeason == ApplyGetSeason

SpecSeason == InitSeason /\ [][NextSeason]_vars

----------------------------------------------------------------------------
(* authorize_spotify.py, and the client set-up of CombinedSpotifyAnalytics, *)
(* under one environment                                                    *)

\* what load_dotenv() puts in the environment; nothing without a .env file
Getenv(name) == IF environ.env_file THEN environ[name] ELSE Unset

\* a test that overlooks the placeholder of .env.example
NotConfiguredUnsetOnly(value, placeholder) == value \in {Unset, ""}

\* not client_id or client_id == 'your_client_id_here'
NotConfigured(value, placeholder) == value \in {Unset, ""} \/ value = placeholder

\* 'localhost' in redirect_uri.lower()
UsesLocalhost(redirect_uri) == redirect_uri = "http://localhost:8888/callback"

\* lines 22-27
AuthEnvFile ==
    /\ pc = "auth_env_file"
    /\ IF environ.env_file
       THEN pc' = "auth_dotenv" /\ UNCHANGED exit_status
       ELSE pc' = "auth_exited" /\ exit_status' = 1
    /\ UNCHANGED <<objVars, output_file, dashVars, environ, sp_oauth>>

\* lines 30-37
AuthLoadDotenv ==
    /\ pc = "auth_dotenv"
    /\ IF environ.dotenv_installed
       THEN pc' = "auth_credentials" /\ UNCHANGED exit_status
       ELSE pc' = "auth_exited" /\ exit_status' = 1
    /\ UNCHANGED <<objVars, output_file, dashVars, environ, sp_oauth>>

\* lines 40-56
AuthCheckCredentials ==
    /\ pc = "auth_credentials"
    /\ IF \/ NotConfigured(Getenv("SPOTIFY_CLIENT_ID"), "your_client_id_here")
          \/ NotConfigured(Getenv("SPOTIFY_CLIENT_SECRET"), "your_client_secret_here")
          \/ Getenv("SPOTIFY_REDIRECT_URI") \in {Unset, ""}
       THEN pc' = "auth_exited" /\ exit_status' = 1
       ELSE pc' = "auth_localhost" /\ UNCHANGED exit_status
    /\ UNCHANGED <<objVars, output_file, dashVars, environ, sp_oauth>>

\* lines 59-67: the operator answers the localhost warning
AuthWarnLocalhost ==
    /\ pc = "auth_localhost"
    /\ IF UsesLocalhost(Getenv("SPOTIFY_REDIRECT_URI"))
       THEN \E response \in {"y", "n"} :
               IF response # "y"
               THEN pc' = "auth_exited" /\ exit_status' = 0
               ELSE pc' = "auth_import" /\ UNCHANGED exit_status
       ELSE pc' = "auth_import" /\ UNCHANGED exit_status
    /\ UNCHANGED <<objVars, output_file, dashVars, environ, sp_oauth>>

\* lines 75-82
AuthImportSpotipy ==
    /\ pc = "auth_import"
    /\ IF environ.spotipy_installed
       THEN pc' = "auth_oauth" /\ UNCHANGED exit_status
       ELSE pc' = "auth_exited" /\ exit_status' = 1
    /\ UNCHANGED <<objVars, output_file, dashVars, environ, sp_oauth>>

\* lines 85-106: the auth manager and the client are built
AuthCreateOAuth ==
    /\ pc = "auth_oauth"
    /\ sp_oauth' = "SpotifyOAuth"
    /\ pc' = "auth_current_user"
    /\ UNCHANGED <<objVars, output_file, dashVars, environ, exit_status>>

\* lines 109-150: sp.current_user() runs the authorization flow
AuthCurrentUser ==
    /\ pc = "auth_current_user"
    /\ \E authorized \in BOOLEAN :
          exit_status' = IF authorized THEN 0 ELSE 1
    /\ pc' = "auth_exited"
    /\ UNCHANGED <<objVars, output_file, dashVars, environ, sp_oauth>>

\* CombinedSpotifyAnalytics(): the imports of lines 8-13, load_dotenv() and
\* _init_spotify_client; SpotifyOAuth raises on an unset credential and takes
\* any other string
AnalyticsInit ==
    /\ pc = "analytics"
    /\ IF ~environ.dotenv_installed \/ ~environ.spotipy_installed
       THEN /\ pc' = "analytics_exited"
            /\ exit_status' = 1
            /\ UNCHANGED <<sp, sp_oauth, op>>
       ELSE /\ IF \/ Getenv("SPOTIFY_CLIENT_ID") \in {Unset, ""}
                  \/ Getenv("SPOTIFY_CLIENT_SECRET") \in {Unset, ""}
                  \/ Getenv("SPOTIFY_REDIRECT_URI") \in {Unset, ""}
               THEN sp' = "None" /\ UNCHANGED sp_oauth
               ELSE sp' = "Spotify" /\ sp_oauth' = "SpotifyOAuth"
            /\ op' = "__init__"
            /\ pc' = "constructed"
            /\ UNCHANGED exit_status
    /\ UNCHANGED <<csv, historical_data, api_data, results, combined_data, prev_op, ret,
                   output_file, dashVars, environ>>

\* the .env file and the installed packages
Environments ==
    [env_file : BOOLEAN,
     dotenv_installed : BOOLEAN,
     spotipy_installed : BOOLEAN,
     SPOTIFY_CLIENT_ID : {Unset, "", "your_client_id_here", "id"},
     SPOTIFY_CLIENT_SECRET : {Unset, "", "your_client_secret_here", "secret"},
     SPOTIFY_REDIRECT_URI :
        {Unset, "", "http://localhost:8888/callback", "http://127.0.0.1:8888/callback"}]

InitAuth ==
    /\ environ \in Environments
    /\ sp_oauth = "None"
    /\ exit_status = Running
    /\ pc \in {"auth_env_file", "analytics"}
    /\ csv = NoFile
    /\ output_file = NoFile
    /\ sp = "None"
    /\ historical_data = None
    /\ api_data = None
    /\ results = None
    /\ combined_data = None
    /\ op = "None"
    /\ prev_op = "None"
    /\ ret = "None"
    /\ DashIdle

NextAuth ==
    \/ AuthEnvFile
    \/ AuthLoadDotenv
    \/ AuthCheckCredentials
    \/ AuthWarnLocalhost
    \/ AuthImportSpotipy
    \/ AuthCreateOAuth
    \/ AuthCurrentUser
    \/ AnalyticsInit

SpecAuth == InitAuth /\ [][NextAuth]_vars

----------------------------------------------------------------------------
(* Properties *)

\* a row's columns, without its index label
Values(r) == [r EXCEPT !.index = 0]

Triple(r) == <<r.played_at, r.track_name, r.artist_name>>

\* combine_data has just run and returned True
MergeRan == op = "combine_data" /\ ret = "True"

Hist == historical_data.rows

Recent == IF api_data = None THEN <<>> ELSE api_data.rows

Merged == combined_data.rows

\* max(played_at) over Historical
Cutoff == PlayedAtMax(Hist)

\* the Recent row at position i has a row of its own in the merged table
Entered(i) == \E k \in 1..Len(Merged) : Values(Merged[k]) = Values(Recent[i])

\* C1: with a non-empty Historical, a Recent row is in the merged table if and
\* only if its played_at is strictly greater than the cutoff; no API row at or
\* before the cutoff is in the merged table.
C1_StrictCutoff ==
    (MergeRan /\ Len(Hist) > 0) =>
        /\ \A i \in 1..Len(Recent) : Entered(i) <=> Gt(Recent[i].played_at, Cutoff)
        /\ \A k \in 1..Len(Merged) :
              Merged[k].platform = "API" => ~Le(Merged[k].played_at, Cutoff)

\* a Recent row exactly at the cutoff, with no Historical row of the same
\* triple, was left out, and a Recent row after the cutoff was merged
C1_Witness ==
    /\ MergeRan
    /\ Len(Hist) > 0
    /\ \E i \in 1..Len(Recent) :
          /\ Recent[i].played_at = Cutoff
          /\ \A h \in 1..Len(Hist) : Triple(Hist[h]) # Triple(Recent[i])
          /\ ~Entered(i)
    /\ \E i \in 1..Len(Recent) : Gt(Recent[i].played_at, Cutoff) /\ Entered(i)

\* C2: after a successful combine_data, played_at[i] <= played_at[i+1] for all
\* adjacent rows of the merged table.
C2_Sorted ==
    MergeRan =>
        \A i \in 1..(Len(Merged) - 1) : Le(Merged[i].played_at, Merged[i + 1].played_at)

\* C3: after a successful combine_data, no two rows of the merged table share
\* the triple (played_at, track_name, artist_name).
C3_NoDuplicateTriple ==
    MergeRan =>
        \A i, j \in 1..Len(Merged) : i # j => Triple(Merged[i]) # Triple(Merged[j])

\* Historical held two rows of one triple before the merge
C3_Witness ==
    /\ MergeRan
    /\ \E i, j \in 1..Len(Hist) : i < j /\ Triple(Hist[i]) = Triple(Hist[j])

\* the table before deduplication: Historical, then the Recent rows after the
\* cutoff, sorted and given a dense index
AdmittedRecent ==
    LET after(r) == Gt(r.played_at, Cutoff) IN SelectSeq(Recent, after)

PreDedup == ResetIndex(SortValues(Hist \o AdmittedRecent))

\* the positions of the rows of df that share the triple of its row i
Group(df, i) == {j \in 1..Len(df) : Triple(df[j]) = Triple(df[i])}

\* C4: of the pre-dedup rows that share a triple exactly one is in the merged
\* table, and it is the first of them in the sorted order; if rows of both
\* origins share a triple, the survivor is the Historical one.
C4_FirstSurvives ==
    MergeRan =>
        LET pre == PreDedup
            merged == Merged
        IN  \A i \in 1..Len(pre) :
                LET group == Group(pre, i)
                    first == CHOOSE j \in group : \A k \in group : j <= k
                    kept == {k \in 1..Len(merged) : Triple(merged[k]) = Triple(pre[i])}
                IN  /\ Cardinality(kept) = 1
                    /\ \A k \in kept : merged[k] = pre[first]
                    /\ (\E x, y \in group :
                            pre[x].platform = "API" /\ pre[y].platform # "API")
                        => \A k \in kept : merged[k].platform # "API"

\* two pre-dedup rows shared a triple and differed in another column
C4_Witness ==
    /\ MergeRan
    /\ LET pre == PreDedup
       IN  \E i, j \in 1..Len(pre) :
              /\ i < j
              /\ Triple(pre[i]) = Triple(pre[j])
              /\ pre[i].duration_ms # pre[j].duration_ms

\* C5: combine_data on an empty Historical (never loaded, or loaded with no
\* row left) fails and produces no merged table.
C5_EmptyHistoricalFails ==
    (op = "combine_data" /\ (historical_data = None \/ Len(Hist) = 0))
        => ret = "False" /\ combined_data = None

C7_Idempotent ==
    [][(MergeRan /\ op' = "combine_data") => (ret' = "True" /\ combined_data' = combined_data)]_vars

\* combine_data ran twice in a row and the merged table holds an API row
C7_Witness ==
    /\ MergeRan
    /\ prev_op = "combine_data"
    /\ \E k \in 1..Len(Merged) : Merged[k].platform = "API"

\* the row of the export that the loaded row r was read from
Source(r) == csv.rows[r.index + 1]

\* row i of the export is in historical_data
Loaded(i) == \E k \in 1..Len(Hist) : Hist[k].index = i - 1

C9_AudioOnly ==
    historical_data # None =>
        \A i \in 1..Len(csv.rows) : csv.rows[i].content_type # "audio" => ~Loaded(i)

\* a podcast row and a video row, long enough and with a track name, were dropped
C9_Witness ==
    /\ historical_data # None
    /\ \E i, j \in 1..Len(csv.rows) :
          /\ csv.rows[i].content_type = "podcast"
          /\ csv.rows[j].content_type = "video"
          /\ \A n \in {i, j} :
                /\ csv.rows[n].ms_played >= 30000
                /\ csv.rows[n].master_metadata_track_name # ""
                /\ ~Loaded(n)

\* C10: a row whose track name is missing is dropped whatever its other
\* fields; no record of historical_data has a null or empty track_name.
C10_TrackNamed ==
    historical_data # None =>
        /\ \A i \in 1..Len(csv.rows) :
              csv.rows[i].master_metadata_track_name = "" => ~Loaded(i)
        /\ \A k \in 1..Len(Hist) : Hist[k].track_name \notin {NaN, ""}

\* an audio row of 30000 ms without a track name was dropped
C10_Witness ==
    /\ historical_data # None
    /\ \E i \in 1..Len(csv.rows) :
          /\ csv.rows[i].master_metadata_track_name = ""
          /\ csv.rows[i].ms_played >= 30000
          /\ csv.rows[i].content_type = "audio"
          /\ ~Loaded(i)

\* C11: no record of the merged table has a null played_at, for any export
\* (rows whose ts is missing included) and any API reply.
C11_PlayedAtNeverNull ==
    MergeRan => \A k \in 1..Len(Merged) : Merged[k].played_at # NaT

\* main() has stopped: by an early return, by an exception, or at its end
Ended == pc \in {"returned", "crashed", "done"}

\* C12: without an authenticated session (sp is None) fetch_recent_api_data
\* makes no API call and returns its skip status with Recent left empty, and
\* main still goes on to combine and save the Historical data alone: once the
\* export is loaded the run ends with the Historical rows in the output file.
C12_SkipKeepsPipeline ==
    sp = "None" =>
        /\ results = None
        /\ op = "fetch_recent_api_data" => (ret = "False" /\ api_data = None)
        /\ (Ended /\ historical_data # None) =>
              /\ pc = "done"
              /\ output_file = ToCsv(DataFrame(DropDuplicates(ResetIndex(SortValues(Hist)))))

\* C13: after a successful fetch api_data has exactly one record per item of
\* the reply; its artist_name is the first artist listed for the item's track,
\* null when none is listed; its played_at is the item's own; conn_country,
\* shuffle and skipped are null; its platform is 'API', a value no record
\* loaded from the export is given: those carry the export's own platform.
C13_ItemMapping ==
    /\ (op = "fetch_recent_api_data" /\ ret = "True") =>
          LET items == results.items
              rows == api_data.rows
          IN  /\ Len(rows) = Len(items)
              /\ \A i \in 1..Len(items) :
                    /\ rows[i].artist_name =
                          IF Len(items[i].track.artists) = 0
                          THEN NaN
                          ELSE Head(items[i].track.artists)
                    /\ rows[i].played_at = items[i].played_at
                    /\ rows[i].conn_country = NaN
                    /\ rows[i].shuffle = NaN
                    /\ rows[i].skipped = NaN
                    /\ rows[i].platform = "API"
    /\ historical_data # None =>
          \A k \in 1..Len(Hist) :
              /\ Hist[k].platform = Source(Hist[k]).platform
              /\ Hist[k].platform # "API"

\* a reply with a track of two artists and a track of none was mapped, next to
\* a loaded export
C13_Witness ==
    /\ op = "fetch_recent_api_data"
    /\ ret = "True"
    /\ Len(Hist) > 0
    /\ \E i, j \in 1..Len(results.items) :
          /\ Len(results.items[i].track.artists) = 2
          /\ api_data.rows[i].artist_name = "A2"
          /\ results.items[j].track.artists = <<>>
          /\ api_data.rows[j].artist_name = NaN

\* C14: the output file is written only by a save that follows a successful
\* merge, and then it is the complete merged table; a step in which loading,
\* fetching or combining runs, or a save without a merged table, leaves the
\* file as it was.
C14_WrittenAfterMerge ==
    [][/\ output_file' # output_file =>
            /\ op' = "save_combined_data"
            /\ ret' = "True"
            /\ historical_data # None
            /\ combined_data # None
            /\ output_file' = ToCsv(combined_data)
       /\ (op' = "save_combined_data" /\ combined_data = None) =>
            (ret' = "False" /\ output_file' = output_file)
       /\ ret' = "False" => output_file' = output_file]_vars

\* the merged table has been saved
C14_Witness ==
    /\ op = "save_combined_data"
    /\ ret = "True"
    /\ combined_data # None
    /\ Len(Merged) > 0
    /\ output_file = ToCsv(combined_data)

\* the exit status of the interpreter: main() returning leaves it at 0 (lines
\* 282, 290 and the end of main call no exit), an uncaught exception makes it 1
ExitCode == IF pc = "crashed" THEN 1 ELSE 0

\* C15: a run of main ends with a non-zero exit code when the historical
\* source is missing (load_historical_csv fails) and with exit code zero in
\* every other case.
C15_ExitCode ==
    Ended => (ExitCode # 0 <=> historical_data = None)

\* C16: the output of a run is derived from that run's Historical and Recent
\* only: whatever the file held before, at the end of the run it holds the
\* rows of the merged table of this Historical and this Recent, in their
\* order, and nothing else.
C16_Overwritten ==
    pc = "done" =>
        /\ output_file = ToCsv(DataFrame(Combined(historical_data, api_data)))
        /\ Len(output_file.rows) = Len(Merged)
        /\ \A k \in 1..Len(Merged) :
              /\ output_file.rows[k] = ToCsvRow(Merged[k])
              /\ \/ \E h \in 1..Len(Hist) : Values(Hist[h]) = Values(Merged[k])
                 \/ \E i \in 1..Len(Recent) : Values(Recent[i]) = Values(Merged[k])

\* a run that found an earlier file wrote Historical and Recent rows over it
C16_Witness ==
    /\ pc = "done"
    /\ \E k \in 1..Len(Merged) : Merged[k].platform = "API"
    /\ \E k \in 1..Len(Merged) : Merged[k].platform # "API"
    /\ \A k \in 1..Len(output_file.rows) : output_file.rows[k] # OldFile.rows[1]
    /\ output_file # OldFile

\* the season labels
SeasonLabels == {season_order[k] : k \in 1..Len(season_order)}

PlaysInRange(e) ==
    Cardinality({i \in 1..Len(dash_df.rows) :
                    /\ dash_df.rows[i].year >= start_year
                    /\ dash_df.rows[i].year <= end_year
                    /\ Entity(dash_df.rows[i], view_type) = e})

\* C18: in the seasonal breakdown, for every listed artist or song, the sum
\* of its Winter, Spring, Summer and Fall plays is its number of plays in the
\* table filtered to the selected years, for every year range and both views.
C18_SeasonSum ==
    pc = "seasons_shown" =>
        \A e \in DOMAIN heatmap_data :
            heatmap_data[e]["Winter"] + heatmap_data[e]["Spring"]
                + heatmap_data[e]["Summer"] + heatmap_data[e]["Fall"] = PlaysInRange(e)

\* a listed entity has plays in December and in another season
C18_Witness ==
    /\ pc = "seasons_shown"
    /\ \E e \in DOMAIN heatmap_data :
          /\ heatmap_data[e]["Winter"] >= 1
          /\ heatmap_data[e]["Summer"] + heatmap_data[e]["Fall"] >= 1
          /\ PlaysInRange(e) >= 2

\* the dated plays of artist a in the saved table, from year since on
SavedPlays(a, since) ==
    {output_file.rows[i].played_at :
        i \in {j \in 1..Len(output_file.rows) :
                 /\ output_file.rows[j].artist_name = a
                 /\ output_file.rows[j].played_at # EmptyTs
                 /\ Year(output_file.rows[j].played_at) >= since}}

\* the same for the track of the key track - artist
SavedTrackPlays(track, artist, since) ==
    {output_file.rows[i].played_at :
        i \in {j \in 1..Len(output_file.rows) :
                 /\ output_file.rows[j].track_name = track
                 /\ output_file.rows[j].artist_name = artist
                 /\ output_file.rows[j].played_at # EmptyTs
                 /\ Year(output_file.rows[j].played_at) >= since}}

\* the artists and the (track, artist) pairs named in the saved table
SavedArtists == {output_file.rows[i].artist_name : i \in 1..Len(output_file.rows)} \ {""}

SavedTracks ==
    {<<output_file.rows[i].track_name, output_file.rows[i].artist_name>> :
        i \in {j \in 1..Len(output_file.rows) :
                 output_file.rows[j].track_name # "" /\ output_file.rows[j].artist_name # ""}}

\* C19 as stated: whatever years are selected, the new-artists and new-tracks
\* counts and the discovery-by-year view give an entity the calendar year of
\* its earliest play recorded in the merged table.
C19_DiscoveryYear ==
    pc = "discovery_shown" =>
        /\ \A a \in SavedArtists :
              SavedPlays(a, 0) # {} =>
                  /\ a \in DOMAIN metrics.first_listen_year
                  /\ metrics.first_listen_year[a] = Year(MinOf(SavedPlays(a, 0)))
                  /\ a \in DOMAIN first_plays
                  /\ Year(first_plays[a]) = Year(MinOf(SavedPlays(a, 0)))
        /\ \A t \in SavedTracks :
              SavedTrackPlays(t[1], t[2], 0) # {} =>
                  /\ (t[1] \o " - " \o t[2]) \in DOMAIN metrics.first_listen_track
                  /\ metrics.first_listen_track[t[1] \o " - " \o t[2]]
                        = Year(MinOf(SavedTrackPlays(t[1], t[2], 0)))

\* C19, amended: whatever years are selected, the new-artists and new-tracks
\* counts and the discovery-by-year view give an entity the calendar year of
\* its earliest play among the plays the dashboard loads, which are the plays
\* of the merged table from 2017 on; an entity without such a play has no
\* discovery year.
C19_DiscoveryYearSince2017 ==
    pc = "discovery_shown" =>
        /\ \A a \in SavedArtists :
              IF SavedPlays(a, DATA_START_YEAR) # {}
              THEN /\ a \in DOMAIN metrics.first_listen_year
                   /\ metrics.first_listen_year[a] = Year(MinOf(SavedPlays(a, DATA_START_YEAR)))
                   /\ a \in DOMAIN first_plays
                   /\ Year(first_plays[a]) = Year(MinOf(SavedPlays(a, DATA_START_YEAR)))
              ELSE /\ a \notin DOMAIN metrics.first_listen_year
                   /\ a \notin DOMAIN first_plays
        /\ \A t \in SavedTracks :
              IF SavedTrackPlays(t[1], t[2], DATA_START_YEAR) # {}
              THEN /\ (t[1] \o " - " \o t[2]) \in DOMAIN metrics.first_listen_track
                   /\ metrics.first_listen_track[t[1] \o " - " \o t[2]]
                         = Year(MinOf(SavedTrackPlays(t[1], t[2], DATA_START_YEAR)))
              ELSE (t[1] \o " - " \o t[2]) \notin DOMAIN metrics.first_listen_track

\* an artist first played in 2016, then in two later years, has the earlier
\* of these as discovery year while a range that starts after it is selected
C19_Witness ==
    /\ pc = "discovery_shown"
    /\ \E a \in SavedArtists :
          /\ SavedPlays(a, 0) # SavedPlays(a, DATA_START_YEAR)
          /\ a \in DOMAIN first_plays
          /\ metrics.first_listen_year[a] < start_year
          /\ Year(first_plays[a]) = metrics.first_listen_year[a]
          /\ Year(MinOf(SavedPlays(a, 0))) < metrics.first_listen_year[a]

\* C20: computing the dashboard aggregates, for any selection, changes no row
\* and no column of the loaded table: after the summary metrics, the
\* discovery view and the seasonal breakdown it is still the table that
\* load_data returned.
C20_ReadOnly ==
    pc \in {"years_selected", "metrics_shown", "top_songs_shown", "discovery_shown", "seasons_shown"} =>
        /\ dash_df.columns = LoadedColumns
        /\ dash_df = load_data(output_file)

\* the plays of the pair (track, artist) in the rows of the loaded table that
\* fall in the selected years
PairPlaysInRange(track, artist) ==
    Cardinality({i \in 1..Len(dash_df.rows) :
                    /\ dash_df.rows[i].year >= start_year
                    /\ dash_df.rows[i].year <= end_year
                    /\ dash_df.rows[i].track_name = track
                    /\ dash_df.rows[i].artist_name = artist})

\* the (track, artist) pairs played in the selected years
PairsInRange ==
    {<<dash_df.rows[i].track_name, dash_df.rows[i].artist_name>> :
        i \in {j \in 1..Len(dash_df.rows) :
                 /\ dash_df.rows[j].year >= start_year
                 /\ dash_df.rows[j].year <= end_year
                 /\ dash_df.rows[j].artist_name # NaN}}

\* C21: the Top Songs ranking is by frequency of (track_name, artist_name)
\* pairs and has at most 10 entries: the plays of a listed entry are the plays
\* whose track and artist both match the entry, and every listed entry has at
\* least as many plays as every pair left out.
C21_TopSongsByPair ==
    pc = "top_songs_shown" =>
        /\ Cardinality(DOMAIN top_songs) <= 10
        /\ \A s \in DOMAIN top_songs :
              /\ top_songs[s].plays = PairPlaysInRange(top_songs[s].song, top_songs[s].artist)
              /\ \A p \in PairsInRange :
                    (\A t \in DOMAIN top_songs :
                        <<top_songs[t].song, top_songs[t].artist>> # p)
                        => top_songs[s].plays >= PairPlaysInRange(p[1], p[2])

----------------------------------------------------------------------------
(* C22 *)

\* a credential is unset, empty or left as the placeholder
CredentialsMissing ==
    /\ environ # None
    /\ \/ Getenv("SPOTIFY_CLIENT_ID") \in {Unset, "", "your_client_id_here"}
       \/ Getenv("SPOTIFY_CLIENT_SECRET") \in {Unset, "", "your_client_secret_here"}
       \/ Getenv("SPOTIFY_REDIRECT_URI") \in {Unset, ""}

\* the process is past its credential handling
CredentialsHandled ==
    pc \in {"auth_localhost", "auth_import", "auth_oauth", "auth_current_user",
            "auth_exited", "constructed", "analytics_exited"}

\* the authorization script runs, not the analytics object
AuthorizeScript ==
    pc \in {"auth_env_file", "auth_dotenv", "auth_credentials", "auth_localhost",
            "auth_import", "auth_oauth", "auth_current_user", "auth_exited"}

\* C22, as stated: with a credential unset or left as the placeholder, every
\* process exits non-zero once it has handled its credentials, and no OAuth
\* manager is ever built.
C22_ConfigErrorFatal ==
    CredentialsMissing =>
        /\ sp_oauth = "None"
        /\ CredentialsHandled => exit_status \notin {Running, 0}

\* C22: in the authorization script a credential that is unset or left as the
\* placeholder ends the script with status 1 before the OAuth manager is
\* built; CombinedSpotifyAnalytics does not exit on it: an unset credential
\* leaves it running with sp = None and no OAuth manager.
C22_AuthorizeConfigError ==
    CredentialsMissing =>
        /\ AuthorizeScript =>
              /\ sp_oauth = "None"
              /\ CredentialsHandled => pc = "auth_exited" /\ exit_status = 1
        /\ ( /\ pc = "constructed"
             /\ \/ Getenv("SPOTIFY_CLIENT_ID") \in {Unset, ""}
                \/ Getenv("SPOTIFY_CLIENT_SECRET") \in {Unset, ""}
                \/ Getenv("SPOTIFY_REDIRECT_URI") \in {Unset, ""} )
           => sp = "None" /\ sp_oauth = "None" /\ exit_status = Running

\* the script has stopped on a placeholder client id, every other setting valid
C22_Witness ==
    /\ pc = "auth_exited"
    /\ exit_status = 1
    /\ sp_oauth = "None"
    /\ environ.env_file
    /\ environ.dotenv_installed
    /\ environ.SPOTIFY_CLIENT_ID = "your_client_id_here"
    /\ environ.SPOTIFY_CLIENT_SECRET = "secret"
    /\ environ.SPOTIFY_REDIRECT_URI = "http://127.0.0.1:8888/callback"

----------------------------------------------------------------------------
(* C23 *)

\* C23, as stated: after a successful combine_data the row index of the merged
\* table is exactly 0, 1, ..., n-1 for its n rows.
C23_DenseIndex ==
    MergeRan => \A k \in 1..Len(Merged) : Merged[k].index = k - 1

----------------------------------------------------------------------------
(* C24 *)

\* C24: in every order of method calls, a combine_data called while
\* historical_data is None returns False and leaves combined_data as it was;
\* while combined_data is None, get_statistics returns None and
\* save_combined_data returns False and writes no file; and whenever
\* combined_data is set, historical_data is set.
C24_Guards ==
    /\ [](combined_data # None => historical_data # None)
    /\ [][ /\ (op' = "combine_data" /\ historical_data = None)
                => ret' = "False" /\ combined_data' = combined_data
           /\ (op' = "get_statistics" /\ combined_data = None)
                => ret' = "None"
           /\ (op' = "save_combined_data" /\ combined_data = None)
                => ret' = "False" /\ output_file' = output_file ]_vars

\* get_statistics has returned None after a combine_data that found no
\* Historical table, and no file was written
C24_Witness ==
    /\ op = "get_statistics"
    /\ ret = "None"
    /\ prev_op = "combine_data"
    /\ historical_data = None
    /\ combined_data = None
    /\ output_file = NoFile

----------------------------------------------------------------------------
(* C25 *)

\* C25, as stated: a fetch_recent_api_data that returns False leaves api_data as
\* it was, so that the Recent rows a later combine_data reads are those it
\* would have read without the failed call.
C25_FailedFetchKeepsRows ==
    [][ (op' = "fetch_recent_api_data" /\ ret' = "False") => Recent' = Recent ]_vars

----------------------------------------------------------------------------
(* C26 *)

\* a row fetched from the API (line 136)
ApiOrigin(r) == r.platform = "API"

\* C26, as stated: in a merged table every Historical row precedes every API
\* row and has a strictly smaller played_at, and before deduplication no
\* Historical row shares its triple with an API row.
C26_OriginsApart ==
    MergeRan =>
        /\ \A i, j \in 1..Len(Merged) :
              (~ApiOrigin(Merged[i]) /\ ApiOrigin(Merged[j]))
                  => i < j /\ Gt(Merged[j].played_at, Merged[i].played_at)
        /\ LET pre == PreDedup
           IN  \A i, j \in 1..Len(pre) :
                  Triple(pre[i]) = Triple(pre[j]) => ApiOrigin(pre[i]) = ApiOrigin(pre[j])

----------------------------------------------------------------------------
(* C27 *)

\* the triples of the rows of a table
Triples(df) == {Triple(df[k]) : k \in 1..Len(df)}

\* C27: the triples of the merged table are those of Historical together with
\* those of the Recent rows whose played_at is after the cutoff, and the
\* merged table has one row for each of them.
C27_NoPlayLostOrInvented ==
    MergeRan =>
        LET expected == Triples(Hist) \cup Triples(AdmittedRecent)
        IN  /\ Triples(Merged) = expected
            /\ Len(Merged) = Cardinality(expected)

\* a merge that dropped a repeated Historical play, took one Recent play and
\* left another at the cutoff out
C27_Witness ==
    /\ MergeRan
    /\ Len(Hist) > Cardinality(Triples(Hist))
    /\ Len(AdmittedRecent) > 0
    /\ Len(AdmittedRecent) < Len(Recent)

----------------------------------------------------------------------------
(* C28 *)

\* the summary metrics stopped on an exception: the track_key assignment of
\* line 215 has happened and no metric is shown
MetricsRaised ==
    /\ pc = "exception"
    /\ filtered_df # None
    /\ "track_key" \in filtered_df.columns

\* C28: for every selection of years the summary metrics raise no division by
\* zero: end_year >= start_year, the average per year divides by
\* num_years >= 1, and in the comparison of a single year each percentage is 0
\* when the count of the year before is 0.
C28_NoDivisionByZero ==
    /\ ~MetricsRaised
    /\ pc \in {"years_selected", "metrics_shown", "top_songs_shown", "discovery_shown",
               "seasons_shown"} => end_year >= start_year
    /\ metrics # None =>
          /\ metrics.average # None =>
                /\ metrics.average.num_years >= 1
                /\ metrics.average.avg_per_year =
                      [num |-> metrics.total_plays, den |-> metrics.average.num_years]
          /\ metrics.comparison # None =>
                /\ metrics.comparison.prev_plays = 0 => metrics.comparison.plays_pct = Zero
                /\ metrics.comparison.prev_hours = 0 => metrics.comparison.hours_pct = Zero
                /\ metrics.comparison.prev_artists = 0 => metrics.comparison.artists_pct = Zero
                /\ metrics.comparison.prev_tracks = 0 => metrics.comparison.tracks_pct = Zero

\* a single year is selected, the year before it has no row in the table, and
\* the selected year has plays
C28_Witness ==
    /\ pc = "metrics_shown"
    /\ start_year = end_year
    /\ metrics.comparison # None
    /\ metrics.comparison.prev_plays = 0
    /\ metrics.comparison.plays_pct = Zero
    /\ metrics.total_plays > 0

====
